---- MODULE Spec2Model ----
(***************************************************************************)
(* Model of http_server_rcu.c: a kernel module that serves a payload       *)
(* (server.web_data) to its reader threads (setup_client) under RCU, with a *)
(* recovery thread (recover_system_thread) and an updater thread function  *)
(* (updater_thread).                                                       *)
(*                                                                         *)
(* Memory is modelled as three heaps, one per struct type; a pointer is an *)
(* index into the heap of its type and NULL is 0.  kmalloc returns a fresh *)
(* index, kfree marks the object freed.                                    *)
(*                                                                         *)
(* RCU is modelled by its contract: synchronize_rcu() returns once every   *)
(* task that was inside rcu_read_lock()/rcu_read_unlock() when it was      *)
(* called has left that section; kfree_rcu() frees the object once every   *)
(* task that was inside a section when it was called has left it.          *)
(*                                                                         *)
(* Shared accesses are interleaved one at a time.  The plain accesses to   *)
(* state->is_in_recovery race with the readers; the value such a read      *)
(* returns is the old or the new one, which is the choice between the read *)
(* step happening before or after the write step.                          *)
(***************************************************************************)
EXTENDS Integers, Sequences, FiniteSets, TLC

\* The number of reader threads the model runs.  The module creates
\* NUM_CLIENTS of them with initialize_clients(NUM_CLIENTS); they run the same
\* function and differ only in their sleep time, which the model leaves open.
NumReaders == 2

CRASH_ID == 7234

NULL == 0

ENOMEM == 12

\* Reader threads are named by client->id = i+1; the recovery thread by 7234.
\* updater_thread is a thread function the module defines but never creates
\* itself; the model lets it be started once, at any time after the module
\* initialisation has returned 0.
Readers == 1..NumReaders

Updater == NumReaders + 1

Clients == Readers \cup {CRASH_ID}

RcuTasks == Readers \cup {Updater}

VARIABLES
    initpc,         \* position of http_server_rcu_init
    exitpc,         \* position of http_server_rcu_exit / clean_up_threads
    exit_i,         \* clean_up_threads: index of the list entry being stopped
    init_i,         \* http_server_rcu_init: index of the list entry being woken
    server,         \* struct server: the three pointers
    clients,        \* server.clients: sequence of client ids, head first
    web_datas,      \* heap of struct web_data: [message, freed, retired]
    states,         \* heap of struct state: [is_in_recovery]
    times,          \* heap of struct time: [time]
    task,           \* kthread life cycle of each client
    should_stop,    \* KTHREAD_SHOULD_STOP of each client
    runstate,       \* scheduler state of the recovery thread
    rpc,            \* position of each reader in setup_client
    rwd,            \* setup_client/send_data: local web_data pointer
    rendered,       \* last response each reader printed
    cpc,            \* position of recover_system_thread
    smr_flag,       \* set_mode_recovery: parameter flag
    rs_web_data,    \* recover_server: local web_data
    rs_new,         \* recover_server: local new_web_data
    rs_ret,         \* recover_server: last return value
    upc,            \* position of updater_thread
    u_web_data,     \* updater_thread: local web_data
    u_new,          \* updater_thread: local new_web_data
    server_mutex,   \* holder of server_mutex, or NULL
    state_mutex,    \* holder of state_mutex, or NULL
    gp_wait,        \* synchronize_rcu: tasks still waited for
    cb_wait         \* kfree_rcu: pending object -> tasks still waited for

vars == <<initpc, exitpc, exit_i, init_i, server, clients, web_datas, states, times,
          task, should_stop, runstate, rpc, rwd, rendered, cpc, smr_flag,
          rs_web_data, rs_new, rs_ret, upc, u_web_data, u_new,
          server_mutex, state_mutex, gp_wait, cb_wait>>

initvars == <<initpc, init_i, clients>>

exitvars == <<exitpc, exit_i, should_stop>>

heapvars == <<web_datas, states, times>>

readervars == <<rpc, rwd, rendered>>

ctrlvars == <<cpc, smr_flag, rs_web_data, rs_new, rs_ret, runstate>>

updvars == <<upc, u_web_data, u_new>>

lockvars == <<server_mutex, state_mutex>>

rcuvars == <<gp_wait, cb_wait>>

----------------------------------------------------------------------------
(* Integer helpers: int is 32 bit two's complement.  All intermediate      *)
(* values stay within that range.                                          *)

Pow2(n) == 2 ^ n

IntMax == (Pow2(30) - 1) + Pow2(30)

IntMin == (-IntMax) - 1

\* The low 31 bits of an int, as a natural number.
LowBits(x) == IF x < 0 THEN x - IntMin ELSE x

RECURSIVE XorNat(_, _)
XorNat(a, b) ==
    IF a = 0 THEN b
    ELSE IF b = 0 THEN a
    ELSE (((a % 2) + (b % 2)) % 2) + (2 * XorNat(a \div 2, b \div 2))

\* a ^ b on int: the low 31 bits bit by bit, and the sign bit.
Xor(a, b) ==
    LET low == XorNat(LowBits(a), LowBits(b))
    IN  IF (a < 0) # (b < 0) THEN low + IntMin ELSE low

\* a + 3 on int (the kernel is built with wrapping signed arithmetic).
AddThree(a) == IF a > IntMax - 3 THEN IntMin + ((a - (IntMax - 3)) - 1) ELSE a + 3

\* The shift with its operands exchanged: m << 1.
ShiftLeftByOne(m) == {2 * m}

\* The values (1 << m) can take on int.  For m outside 0..31 the shift is
\* undefined; the builds for the module's targets either mask the count to
\* five bits or yield 0.
ShiftLeftOne(m) ==
    IF m \in 0..30 THEN {Pow2(m)}
    ELSE IF m = 31 THEN {IntMin}
    ELSE IF m % 32 = 31 THEN {IntMin, 0}
    ELSE {Pow2(m % 32), 0}

----------------------------------------------------------------------------
(* RCU                                                                     *)

\* Tasks between rcu_read_lock() and rcu_read_unlock().
InReadSection(t) ==
    IF t = Updater THEN upc \in {"u_read_unlock", "u_read_unlock_exit"}
    ELSE rpc[t] \in {"send_data", "send_data_carefully", "print"}

ReadSideTasks == {t \in RcuTasks : InReadSection(t)}

\* rcu_read_unlock() by task t: every grace period waiting for t stops
\* waiting for it.
RcuReadUnlock(t) ==
    /\ gp_wait' = gp_wait \ {t}
    /\ cb_wait' = [p \in DOMAIN cb_wait |-> cb_wait[p] \ {t}]

\* A synchronize_rcu() that waits for nobody.
SynchronizeRcuNoWait == {}

\* A synchronize_rcu() called from inside a read-side critical section of
\* the caller, which the caller cannot leave while it waits.
SynchronizeRcuInSection == ReadSideTasks \cup {CRASH_ID}

\* The tasks synchronize_rcu() has to wait for: those inside a read-side
\* critical section at the call.
SynchronizeRcuTasks == ReadSideTasks

\* A kfree_rcu() that frees without a grace period, as kfree() would.
KfreeRcuNoWait == {}

\* The tasks the grace period of a kfree_rcu() has to wait for.
KfreeRcuTasks == ReadSideTasks

\* kfree_rcu(p, rcu): queue p to be freed after a grace period.
KfreeRcu(p) ==
    /\ cb_wait' = (p :> KfreeRcuTasks) @@ cb_wait
    /\ web_datas' = [web_datas EXCEPT ![p].retired = @ + 1]

\* The RCU callback of kfree_rcu(): the grace period of p has elapsed, kfree(p).
rcu_reclaim(p) ==
    /\ p \in DOMAIN cb_wait
    /\ cb_wait[p] = {}
    /\ web_datas' = [web_datas EXCEPT ![p].freed = TRUE]
    /\ cb_wait' = [q \in DOMAIN cb_wait \ {p} |-> cb_wait[q]]
    /\ UNCHANGED <<initvars, exitvars, server, states, times, task, readervars,
                   ctrlvars, updvars, lockvars, gp_wait>>

\* kmalloc() returns an object (TRUE) or NULL (FALSE).
KmallocOutcomes == BOOLEAN

\* A spin_lock() that does not exclude anybody.
SpinLockAlwaysFree(l) == TRUE

\* spin_lock(l) can be taken when nobody holds l.
SpinLockFree(l) == l = NULL

\* A return path on which spin_unlock() was left out: the holder keeps the lock.
SpinUnlockMissing(holder) == holder

\* spin_unlock(l) by its holder: nobody holds l.
SpinUnlock(holder) == NULL

----------------------------------------------------------------------------
(* Module initialisation                                                   *)

Init ==
    /\ initpc = "initialize_web_data"
    /\ exitpc = "loaded"
    /\ exit_i = 0
    /\ init_i = 0
    /\ server = [web_data |-> NULL, state |-> NULL, update_timestamp |-> NULL]
    /\ clients = << >>
    /\ web_datas = << >>
    /\ states = << >>
    /\ times = << >>
    /\ task = [c \in Clients |-> "none"]
    /\ should_stop = [c \in Clients |-> FALSE]
    /\ runstate = "RUNNING"
    /\ rpc = [r \in Readers |-> "top"]
    /\ rwd = [r \in Readers |-> NULL]
    /\ rendered = [r \in Readers |-> << >>]
    /\ cpc = "top"
    /\ smr_flag = FALSE
    /\ rs_web_data = NULL
    /\ rs_new = NULL
    /\ rs_ret = 0
    /\ upc = "idle"
    /\ u_web_data = NULL
    /\ u_new = NULL
    /\ server_mutex = NULL
    /\ state_mutex = NULL
    /\ gp_wait = {}
    /\ cb_wait = << >>

\* initialize_server() calls the three initialisers in this order and
\* returns the first error; http_server_rcu_init() then returns -EFAULT.
initialize_web_data ==
    /\ initpc = "initialize_web_data"
    /\ \E ok \in KmallocOutcomes :
        IF ok
        THEN /\ web_datas' = Append(web_datas, [message |-> 0, freed |-> FALSE, retired |-> 0])
             /\ server' = [server EXCEPT !.web_data = Len(web_datas) + 1]
             /\ initpc' = "initialize_state"
        ELSE /\ initpc' = "failed"
             /\ UNCHANGED <<web_datas, server>>
    /\ UNCHANGED <<init_i, clients, exitvars, states, times, task, readervars,
                   ctrlvars, updvars, lockvars, rcuvars>>

initialize_state ==
    /\ initpc = "initialize_state"
    /\ \E ok \in KmallocOutcomes :
        IF ok
        THEN /\ states' = Append(states, [is_in_recovery |-> FALSE])
             /\ server' = [server EXCEPT !.state = Len(states) + 1]
             /\ initpc' = "initialize_time"
        ELSE /\ initpc' = "failed"
             /\ UNCHANGED <<states, server>>
    /\ UNCHANGED <<init_i, clients, exitvars, web_datas, times, task, readervars,
                   ctrlvars, updvars, lockvars, rcuvars>>

initialize_time ==
    /\ initpc = "initialize_time"
    /\ \E ok \in KmallocOutcomes :
        IF ok
        THEN /\ times' = Append(times, [time |-> 0])
             /\ server' = [server EXCEPT !.update_timestamp = Len(times) + 1]
             /\ initpc' = "initialize_clients"
        ELSE /\ initpc' = "failed"
             /\ UNCHANGED <<times, server>>
    /\ UNCHANGED <<init_i, clients, exitvars, web_datas, states, task, readervars,
                   ctrlvars, updvars, lockvars, rcuvars>>

\* clean_up_threads() on a list of threads that were created and never
\* woken: kthread_stop() makes each return without running its function.
StopUnwoken(cs) == [c \in Clients |-> IF c \in cs THEN "exited" ELSE task[c]]

\* initialize_clients(n): clients 1..n are created in order, each added at
\* the head of server.clients.  k is the number created before an
\* allocation fails; k = n is success.  No thread runs yet.
initialize_clients ==
    /\ initpc = "initialize_clients"
    /\ \E k \in 0..NumReaders :
        IF k = NumReaders
        THEN /\ clients' = [i \in 1..NumReaders |-> NumReaders + 1 - i]
             /\ task' = [c \in Clients |-> IF c \in Readers THEN "created" ELSE task[c]]
             /\ initpc' = "initialize_crash"
        ELSE /\ clients' = << >>
             /\ task' = StopUnwoken(1..k)
             /\ initpc' = "failed"
    /\ UNCHANGED <<init_i, exitvars, server, heapvars, readervars, ctrlvars,
                   updvars, lockvars, rcuvars>>

\* initialize_crash(): creates the recovery thread and adds it at the head.
initialize_crash ==
    /\ initpc = "initialize_crash"
    /\ \E ok \in KmallocOutcomes :
        IF ok
        THEN /\ clients' = <<CRASH_ID>> \o clients
             /\ task' = [task EXCEPT ![CRASH_ID] = "created"]
             /\ initpc' = "wake_up"
             /\ init_i' = 1
        ELSE /\ clients' = << >>
             /\ task' = StopUnwoken(Readers)
             /\ initpc' = "failed"
             /\ UNCHANGED init_i
    /\ UNCHANGED <<exitvars, server, heapvars, readervars, ctrlvars,
                   updvars, lockvars, rcuvars>>

\* The list_for_each_entry loop of http_server_rcu_init(): one
\* wake_up_process() per step; the woken thread starts running its function.
wake_up_clients ==
    /\ initpc = "wake_up"
    /\ task' = [task EXCEPT ![clients[init_i]] = "running"]
    /\ IF init_i = Len(clients)
       THEN initpc' = "done" /\ init_i' = 0
       ELSE initpc' = "wake_up" /\ init_i' = init_i + 1
    /\ UNCHANGED <<clients, exitvars, server, heapvars, readervars, ctrlvars,
                   updvars, lockvars, rcuvars>>

----------------------------------------------------------------------------
(* Reader threads: setup_client                                            *)

\* while(!kthread_should_stop()), reached when the thread starts and each
\* time msleep_interruptible(timeout*1000) has elapsed.  The wake_up_process()
\* of kthread_stop() does not end the sleep (no signal is pending for a
\* kthread), so the sleep runs to its timeout.
setup_client_top(r) ==
    /\ task[r] = "running"
    /\ rpc[r] \in {"top", "msleep"}
    /\ IF should_stop[r]
       THEN /\ rpc' = [rpc EXCEPT ![r] = "exited"]
            /\ task' = [task EXCEPT ![r] = "exited"]
       ELSE /\ rpc' = [rpc EXCEPT ![r] = "rcu_read_lock"]
            /\ UNCHANGED task
    /\ UNCHANGED <<initvars, exitvars, server, heapvars, rwd, rendered,
                   ctrlvars, updvars, lockvars, rcuvars>>

\* rcu_read_lock(); is_in_recovery = rcu_dereference(server.state)->is_in_recovery
setup_client_read_state(r) ==
    /\ rpc[r] = "rcu_read_lock"
    /\ rpc' = [rpc EXCEPT ![r] =
                 IF states[server.state].is_in_recovery
                 THEN "send_data_carefully" ELSE "send_data"]
    /\ UNCHANGED <<initvars, exitvars, server, heapvars, task, rwd, rendered,
                   ctrlvars, updvars, lockvars, rcuvars>>

\* send_data_carefully(): the 438 response; server.web_data is not touched.
\* Then rcu_read_unlock() and the thread goes to sleep.
send_data_carefully(r) ==
    /\ rpc[r] = "send_data_carefully"
    /\ rendered' = [rendered EXCEPT ![r] = <<438>>]
    /\ RcuReadUnlock(r)
    /\ rpc' = [rpc EXCEPT ![r] = "msleep"]
    /\ UNCHANGED <<initvars, exitvars, server, heapvars, task, rwd,
                   ctrlvars, updvars, lockvars>>

\* send_data(): web_data = rcu_dereference_check(server.web_data, ...)
send_data_dereference(r) ==
    /\ rpc[r] = "send_data"
    /\ rwd' = [rwd EXCEPT ![r] = server.web_data]
    /\ rpc' = [rpc EXCEPT ![r] = "print"]
    /\ UNCHANGED <<initvars, exitvars, server, heapvars, task, rendered,
                   ctrlvars, updvars, lockvars, rcuvars>>

\* send_data(): the 200 response with web_data->message.  Then
\* rcu_read_unlock() and the thread goes to sleep.
send_data_print(r) ==
    /\ rpc[r] = "print"
    /\ rendered' = [rendered EXCEPT ![r] = <<200, web_datas[rwd[r]].message>>]
    /\ RcuReadUnlock(r)
    /\ rwd' = [rwd EXCEPT ![r] = NULL]
    /\ rpc' = [rpc EXCEPT ![r] = "msleep"]
    /\ UNCHANGED <<initvars, exitvars, server, heapvars, task,
                   ctrlvars, updvars, lockvars>>

----------------------------------------------------------------------------
(* set_mode_recovery(flag), called by the recovery thread                  *)

\* A loop in which the thread parks after either call of set_mode_recovery().
SmrReturnParks(flag) == "set_current_state"

\* Where set_mode_recovery(flag) returns to in recover_system_thread.
SmrReturn(flag) == IF flag THEN "synchronize_rcu" ELSE "set_current_state"

\* The comparison of set_mode_recovery() written with != for ==.
SmrNoChangeInverted(current, flag) == current # flag

\* if(current_state->is_in_recovery == flag)
SmrNoChange(current, flag) == current = flag

\* spin_lock(&state_mutex); current_state = rcu_dereference_protected(
\* server.state, ...); when the flag is already the one asked for:
\* spin_unlock and return.
smr_lock ==
    /\ cpc = "smr_lock"
    /\ SpinLockFree(state_mutex)
    /\ IF SmrNoChange(states[server.state].is_in_recovery, smr_flag)
       THEN /\ state_mutex' = SpinUnlock(CRASH_ID)
            /\ cpc' = SmrReturn(smr_flag)
       ELSE /\ state_mutex' = CRASH_ID
            /\ cpc' = "smr_write"
    /\ UNCHANGED <<initvars, exitvars, server, heapvars, task, readervars,
                   smr_flag, rs_web_data, rs_new, rs_ret, runstate, updvars,
                   server_mutex, rcuvars>>

\* current_state->is_in_recovery = flag: a store into the published object;
\* spin_unlock(&state_mutex); return.
smr_write ==
    /\ cpc = "smr_write"
    /\ states' = [states EXCEPT ![server.state].is_in_recovery = smr_flag]
    /\ state_mutex' = SpinUnlock(CRASH_ID)
    /\ cpc' = SmrReturn(smr_flag)
    /\ UNCHANGED <<initvars, exitvars, server, web_datas, times, task, readervars,
                   smr_flag, rs_web_data, rs_new, rs_ret, runstate, updvars,
                   server_mutex, rcuvars>>

----------------------------------------------------------------------------
(* recover_server()                                                        *)

\* spin_lock(&server_mutex); web_data = rcu_dereference_protected(
\* server.web_data, ...); new_web_data = kmalloc(...).  NULL: spin_unlock,
\* return -ENOMEM (the caller goes on to set_mode_recovery(false)).
\* Otherwise new_web_data->message = (1<<(web_data->message)).
rs_lock ==
    /\ cpc = "rs_lock"
    /\ SpinLockFree(server_mutex)
    /\ \E ok \in KmallocOutcomes :
        IF ok
        THEN /\ \E m \in ShiftLeftOne(web_datas[server.web_data].message) :
                  web_datas' = Append(web_datas, [message |-> m, freed |-> FALSE, retired |-> 0])
             /\ server_mutex' = CRASH_ID
             /\ rs_web_data' = server.web_data
             /\ rs_new' = Len(web_datas) + 1
             /\ cpc' = "rs_assign"
             /\ UNCHANGED <<rs_ret, smr_flag>>
        ELSE /\ server_mutex' = SpinUnlock(CRASH_ID)
             /\ rs_ret' = -ENOMEM
             /\ cpc' = "smr_lock"
             /\ smr_flag' = FALSE
             /\ UNCHANGED <<web_datas, rs_web_data, rs_new>>
    /\ UNCHANGED <<initvars, exitvars, server, states, times, task, readervars,
                   runstate, updvars, state_mutex, rcuvars>>

\* rcu_assign_pointer(server.web_data, new_web_data); then the thread is in
\* msleep_interruptible(TIME_TO_RECOVER*1000).
rs_assign ==
    /\ cpc = "rs_assign"
    /\ server' = [server EXCEPT !.web_data = rs_new]
    /\ cpc' = "rs_msleep"
    /\ UNCHANGED <<initvars, exitvars, heapvars, task, readervars,
                   smr_flag, rs_web_data, rs_new, rs_ret, runstate, updvars,
                   lockvars, rcuvars>>

\* The clock computed from the message read again through server.web_data
\* after the exchange.
NewTimestampReread == Xor(web_datas[server.web_data].message, times[server.update_timestamp].time)

\* web_data->message ^ update_timestamp->time, web_data being the local
\* pointer read before the exchange.
NewTimestamp == Xor(web_datas[rs_web_data].message, times[server.update_timestamp].time)

\* The msleep_interruptible() has elapsed; update_timestamp =
\* rcu_dereference_protected(server.update_timestamp, ...);
\* update_timestamp->time = ...: a store into the published object.
rs_time ==
    /\ cpc = "rs_msleep"
    /\ times' = [times EXCEPT ![server.update_timestamp].time = NewTimestamp]
    /\ cpc' = "rs_unlock"
    /\ UNCHANGED <<initvars, exitvars, server, web_datas, states, task, readervars,
                   smr_flag, rs_web_data, rs_new, rs_ret, runstate, updvars,
                   lockvars, rcuvars>>

\* spin_unlock(&server_mutex)
rs_unlock ==
    /\ cpc = "rs_unlock"
    /\ server_mutex' = SpinUnlock(CRASH_ID)
    /\ cpc' = "rs_kfree_rcu"
    /\ UNCHANGED <<initvars, exitvars, server, heapvars, task, readervars,
                   smr_flag, rs_web_data, rs_new, rs_ret, runstate, updvars,
                   state_mutex, rcuvars>>

\* kfree_rcu() called on the object just published.
rs_retired_new == rs_new

\* The object recover_server() passes to kfree_rcu(): its local web_data,
\* the one it replaced.
rs_retired == rs_web_data

\* kfree_rcu(web_data, rcu); return 0 (the caller goes on to
\* set_mode_recovery(false)).
rs_kfree_rcu ==
    /\ cpc = "rs_kfree_rcu"
    /\ KfreeRcu(rs_retired)
    /\ rs_ret' = 0
    /\ rs_web_data' = NULL
    /\ rs_new' = NULL
    /\ cpc' = "smr_lock"
    /\ smr_flag' = FALSE
    /\ UNCHANGED <<initvars, exitvars, server, states, times, task, readervars,
                   runstate, updvars, lockvars, gp_wait>>

----------------------------------------------------------------------------
(* recover_system_thread                                                   *)

\* while(!kthread_should_stop()): return, or go to sleep before recovery.
recover_system_thread_top ==
    /\ task[CRASH_ID] = "running"
    /\ cpc = "top"
    /\ IF should_stop[CRASH_ID]
       THEN /\ cpc' = "exited"
            /\ task' = [task EXCEPT ![CRASH_ID] = "exited"]
       ELSE /\ cpc' = "msleep"
            /\ UNCHANGED task
    /\ UNCHANGED <<initvars, exitvars, server, heapvars, readervars,
                   smr_flag, rs_web_data, rs_new, rs_ret, runstate, updvars,
                   lockvars, rcuvars>>

\* msleep_interruptible(TIME_BEFORE_RECOVERY*1000) elapses; then
\* set_mode_recovery(true) is called.
recover_system_thread_msleep ==
    /\ cpc = "msleep"
    /\ cpc' = "smr_lock"
    /\ smr_flag' = TRUE
    /\ UNCHANGED <<initvars, exitvars, server, heapvars, task, readervars,
                   rs_web_data, rs_new, rs_ret, runstate, updvars,
                   lockvars, rcuvars>>

\* synchronize_rcu() is called: the grace period starts.
synchronize_rcu_call ==
    /\ cpc = "synchronize_rcu"
    /\ gp_wait' = SynchronizeRcuTasks
    /\ cpc' = "gp_wait"
    /\ UNCHANGED <<initvars, exitvars, server, heapvars, task, readervars,
                   smr_flag, rs_web_data, rs_new, rs_ret, runstate, updvars,
                   lockvars, cb_wait>>

\* synchronize_rcu() returns: the grace period has elapsed; recover_server()
\* is called.
synchronize_rcu_return ==
    /\ cpc = "gp_wait"
    /\ gp_wait = {}
    /\ cpc' = "rs_lock"
    /\ UNCHANGED <<initvars, exitvars, server, heapvars, task, readervars,
                   smr_flag, rs_web_data, rs_new, rs_ret, runstate, updvars,
                   lockvars, rcuvars>>

\* set_current_state(TASK_INTERRUPTIBLE)
recover_system_thread_set_state ==
    /\ cpc = "set_current_state"
    /\ runstate' = "INTERRUPTIBLE"
    /\ cpc' = "schedule"
    /\ UNCHANGED <<initvars, exitvars, server, heapvars, task, readervars,
                   smr_flag, rs_web_data, rs_new, rs_ret, updvars,
                   lockvars, rcuvars>>

\* schedule() returns: the thread runs again once a wake_up_process() has
\* made it TASK_RUNNING (at once if that happened before schedule()).
recover_system_thread_schedule ==
    /\ cpc = "schedule"
    /\ runstate = "RUNNING"
    /\ cpc' = "top"
    /\ UNCHANGED <<initvars, exitvars, server, heapvars, task, readervars,
                   smr_flag, rs_web_data, rs_new, rs_ret, runstate, updvars,
                   lockvars, rcuvars>>

----------------------------------------------------------------------------
(* updater_thread                                                          *)

\* The old message copied without the increment.
UpdaterMessageCopied(m) == m

\* (web_data->message)+3 on int
UpdaterMessage(m) == AddThree(m)

\* rcu_read_lock(); if(rcu_dereference(server.state)->is_in_recovery)
updater_thread_read_state ==
    /\ initpc = "done"
    /\ upc = "idle"
    /\ upc' = IF states[server.state].is_in_recovery
              THEN "u_read_unlock_exit" ELSE "u_read_unlock"
    /\ UNCHANGED <<initvars, exitvars, server, heapvars, task, readervars,
                   ctrlvars, u_web_data, u_new, lockvars, rcuvars>>

\* rcu_read_unlock(); goto exit when in recovery, else go on.
updater_thread_read_unlock ==
    /\ upc \in {"u_read_unlock", "u_read_unlock_exit"}
    /\ RcuReadUnlock(Updater)
    /\ upc' = IF upc = "u_read_unlock_exit" THEN "exited" ELSE "u_lock"
    /\ UNCHANGED <<initvars, exitvars, server, heapvars, task, readervars,
                   ctrlvars, u_web_data, u_new, lockvars>>

\* spin_lock(&server_mutex); web_data = rcu_dereference_protected(
\* server.web_data, ...); new_web_data = kmalloc(...).  NULL: spin_unlock,
\* return -ENOMEM (position "enomem"; the return 0 at the label exit is
\* "exited").  Otherwise new_web_data->message = (web_data->message)+3.
updater_thread_lock ==
    /\ upc = "u_lock"
    /\ SpinLockFree(server_mutex)
    /\ \E ok \in KmallocOutcomes :
        IF ok
        THEN /\ web_datas' = Append(web_datas,
                    [message |-> UpdaterMessage(web_datas[server.web_data].message),
                     freed |-> FALSE, retired |-> 0])
             /\ server_mutex' = Updater
             /\ u_web_data' = server.web_data
             /\ u_new' = Len(web_datas) + 1
             /\ upc' = "u_assign"
        ELSE /\ server_mutex' = SpinUnlock(Updater)
             /\ upc' = "enomem"
             /\ UNCHANGED <<web_datas, u_web_data, u_new>>
    /\ UNCHANGED <<initvars, exitvars, server, states, times, task, readervars,
                   ctrlvars, state_mutex, rcuvars>>

\* rcu_assign_pointer(server.web_data, new_web_data)
updater_thread_assign ==
    /\ upc = "u_assign"
    /\ server' = [server EXCEPT !.web_data = u_new]
    /\ upc' = "u_unlock"
    /\ UNCHANGED <<initvars, exitvars, heapvars, task, readervars,
                   ctrlvars, u_web_data, u_new, lockvars, rcuvars>>

\* spin_unlock(&server_mutex)
updater_thread_unlock ==
    /\ upc = "u_unlock"
    /\ server_mutex' = SpinUnlock(Updater)
    /\ upc' = "u_kfree_rcu"
    /\ UNCHANGED <<initvars, exitvars, server, heapvars, task, readervars,
                   ctrlvars, u_web_data, u_new, state_mutex, rcuvars>>

\* kfree_rcu(web_data, rcu); then the thread parks in its
\* while(!kthread_should_stop()) loop: nothing stops or wakes it.
updater_thread_kfree_rcu ==
    /\ upc = "u_kfree_rcu"
    /\ KfreeRcu(u_web_data)
    /\ u_web_data' = NULL
    /\ u_new' = NULL
    /\ upc' = "parked"
    /\ UNCHANGED <<initvars, exitvars, server, states, times, task, readervars,
                   ctrlvars, lockvars, gp_wait>>

----------------------------------------------------------------------------
(* http_server_rcu_exit / clean_up_threads                                 *)

\* kthread_stop(task): set KTHREAD_SHOULD_STOP and wake_up_process() the
\* thread; the caller then sleeps in wait_for_completion(&kthread->exited).
KthreadStop(c) ==
    /\ should_stop' = [should_stop EXCEPT ![c] = TRUE]
    /\ runstate' = IF c = CRASH_ID THEN "RUNNING" ELSE runstate

\* http_server_rcu_exit() is called (the module is unloaded), which can
\* happen once the initialisation has returned 0; clean_up_threads() calls
\* kthread_stop() on the first list entry.
http_server_rcu_exit ==
    /\ initpc = "done"
    /\ exitpc = "loaded"
    /\ KthreadStop(clients[1])
    /\ exitpc' = "wait_for_completion"
    /\ exit_i' = 1
    /\ UNCHANGED <<initvars, server, heapvars, task, readervars,
                   cpc, smr_flag, rs_web_data, rs_new, rs_ret, updvars,
                   lockvars, rcuvars>>

\* wait_for_completion() returns once the thread has exited; kfree(client);
\* kthread_stop() on the next list entry, or clean_up_threads() returns.
kthread_stop_wait ==
    /\ exitpc = "wait_for_completion"
    /\ task[clients[exit_i]] = "exited"
    /\ IF exit_i = Len(clients)
       THEN /\ exitpc' = "done"
            /\ exit_i' = 0
            /\ UNCHANGED <<should_stop, runstate>>
       ELSE /\ KthreadStop(clients[exit_i + 1])
            /\ exitpc' = "wait_for_completion"
            /\ exit_i' = exit_i + 1
    /\ UNCHANGED <<initvars, server, heapvars, task, readervars,
                   cpc, smr_flag, rs_web_data, rs_new, rs_ret, updvars,
                   lockvars, rcuvars>>

----------------------------------------------------------------------------

ModuleInit ==
    \/ initialize_web_data
    \/ initialize_state
    \/ initialize_time
    \/ initialize_clients
    \/ initialize_crash
    \/ wake_up_clients

Reader(r) ==
    \/ setup_client_top(r)
    \/ setup_client_read_state(r)
    \/ send_data_carefully(r)
    \/ send_data_dereference(r)
    \/ send_data_print(r)

SetModeRecovery ==
    \/ smr_lock
    \/ smr_write

RecoverServer ==
    \/ rs_lock
    \/ rs_assign
    \/ rs_time
    \/ rs_unlock
    \/ rs_kfree_rcu

Controller ==
    \/ recover_system_thread_top
    \/ recover_system_thread_msleep
    \/ SetModeRecovery
    \/ synchronize_rcu_call
    \/ synchronize_rcu_return
    \/ RecoverServer
    \/ recover_system_thread_set_state
    \/ recover_system_thread_schedule

UpdaterThread ==
    \/ updater_thread_read_state
    \/ updater_thread_read_unlock
    \/ updater_thread_lock
    \/ updater_thread_assign
    \/ updater_thread_unlock
    \/ updater_thread_kfree_rcu

ModuleExit ==
    \/ http_server_rcu_exit
    \/ kthread_stop_wait

RcuCallbacks == \E p \in DOMAIN cb_wait : rcu_reclaim(p)

Next ==
    \/ ModuleInit
    \/ \E r \in Readers : Reader(r)
    \/ Controller
    \/ UpdaterThread
    \/ ModuleExit
    \/ RcuCallbacks

Spec == Init /\ [][Next]_vars

\* The threads are scheduled fairly: a thread that can run does run.  The
\* RCU callbacks run, and the functions of module initialisation and exit
\* go on once called.  When the module is unloaded and when updater_thread
\* is started is left open.
UpdaterRun ==
    \/ updater_thread_read_unlock
    \/ updater_thread_lock
    \/ updater_thread_assign
    \/ updater_thread_unlock
    \/ updater_thread_kfree_rcu

Fairness ==
    /\ WF_vars(ModuleInit)
    /\ \A r \in Readers : WF_vars(Reader(r))
    /\ WF_vars(Controller)
    /\ WF_vars(UpdaterRun)
    /\ WF_vars(kthread_stop_wait)
    /\ WF_vars(RcuCallbacks)

FairSpec == Spec /\ Fairness

----------------------------------------------------------------------------
(* set_mode_recovery(flag) called with the flag the state already holds.   *)
(* recover_system_thread alternates true and false, so this call does not  *)
(* occur in the module's own run; it is checked on the function, called on *)
(* an initialised server while the readers run.                            *)

SmrInit ==
    /\ initpc = "done"
    /\ exitpc = "loaded"
    /\ exit_i = 0
    /\ init_i = 0
    /\ server = [web_data |-> 1, state |-> 1, update_timestamp |-> 1]
    /\ clients = <<CRASH_ID>> \o [i \in 1..NumReaders |-> NumReaders + 1 - i]
    /\ \E m \in {0, 3, 8} :
         web_datas = <<[message |-> m, freed |-> FALSE, retired |-> 0]>>
    /\ \E b \in BOOLEAN :
         /\ states = <<[is_in_recovery |-> b]>>
         /\ smr_flag = b
    /\ \E t \in {0, 3} : times = <<[time |-> t]>>
    /\ task = [c \in Clients |-> "running"]
    /\ should_stop = [c \in Clients |-> FALSE]
    /\ runstate = "RUNNING"
    /\ rpc = [r \in Readers |-> "top"]
    /\ rwd = [r \in Readers |-> NULL]
    /\ rendered = [r \in Readers |-> << >>]
    /\ cpc = "smr_lock"
    /\ rs_web_data = NULL
    /\ rs_new = NULL
    /\ rs_ret = 0
    /\ upc = "idle"
    /\ u_web_data = NULL
    /\ u_new = NULL
    /\ server_mutex = NULL
    /\ state_mutex = NULL
    /\ gp_wait = {}
    /\ cb_wait = << >>

SmrNext ==
    \/ smr_lock
    \/ \E r \in Readers : Reader(r)

SmrSpec == SmrInit /\ [][SmrNext]_vars

----------------------------------------------------------------------------
(* recover_server() called on each message a run of recovery cycles can     *)
(* leave in server.web_data.  recover_system_thread calls it after          *)
(* set_mode_recovery(true) and synchronize_rcu(), so is_in_recovery is true *)
(* and no reader is inside send_data(); set_mode_recovery(false) follows.   *)

\* The messages reached from those of S by recovery transforms, as far as
\* the shift count is below the width of int and the result is positive.
RECURSIVE TransformClosure(_)
TransformClosure(S) ==
    LET T == S \cup {Pow2(m) : m \in {x \in S : x \in 0..30}}
    IN  IF T = S THEN S ELSE TransformClosure(T)

\* The messages server.web_data can hold when recover_server() is called:
\* those reached from the initial message 0 by recovery transforms and at
\* most one pass of updater_thread.
TransformMessages ==
    LET before == TransformClosure({0})
    IN  before \cup TransformClosure({UpdaterMessage(m) : m \in before})

TransformInit ==
    /\ initpc = "done"
    /\ exitpc = "loaded"
    /\ exit_i = 0
    /\ init_i = 0
    /\ server = [web_data |-> 1, state |-> 1, update_timestamp |-> 1]
    /\ clients = <<CRASH_ID>> \o [i \in 1..NumReaders |-> NumReaders + 1 - i]
    /\ \E m \in TransformMessages :
         web_datas = <<[message |-> m, freed |-> FALSE, retired |-> 0]>>
    /\ states = <<[is_in_recovery |-> TRUE]>>
    /\ smr_flag = TRUE
    /\ \E t \in {0, 3} : times = <<[time |-> t]>>
    /\ task = [c \in Clients |-> "running"]
    /\ should_stop = [c \in Clients |-> FALSE]
    /\ runstate = "RUNNING"
    /\ rpc = [r \in Readers |-> "top"]
    /\ rwd = [r \in Readers |-> NULL]
    /\ rendered = [r \in Readers |-> << >>]
    /\ cpc = "rs_lock"
    /\ rs_web_data = NULL
    /\ rs_new = NULL
    /\ rs_ret = 0
    /\ upc = "idle"
    /\ u_web_data = NULL
    /\ u_new = NULL
    /\ server_mutex = NULL
    /\ state_mutex = NULL
    /\ gp_wait = {}
    /\ cb_wait = << >>

TransformNext ==
    \/ RecoverServer
    \/ SetModeRecovery
    \/ \E r \in Readers : Reader(r)
    \/ RcuCallbacks

TransformSpec == TransformInit /\ [][TransformNext]_vars

----------------------------------------------------------------------------
(* Properties                                                              *)

Normal(m) == <<200, m>>

Degraded == <<438>>

Message == web_datas[server.web_data].message

Recovering == states[server.state].is_in_recovery

Time == times[server.update_timestamp].time

\* C1. No premature reclamation: the web_data a reader has dereferenced
\* inside its read-side critical section is not freed while the reader is
\* still inside that section (rwd[r] is the reader's pointer from the
\* dereference until rcu_read_unlock()).
C1_NoPrematureReclamation ==
    \A r \in Readers : rwd[r] # NULL => ~web_datas[rwd[r]].freed

\* A reader still holds, inside its critical section, a web_data that a
\* writer has meanwhile replaced and passed to kfree_rcu().
C1_Witness ==
    \E r \in Readers :
        /\ rwd[r] # NULL
        /\ rwd[r] # server.web_data
        /\ web_datas[rwd[r]].retired = 1

\* From the return of synchronize_rcu() (recover_server() is about to be
\* called) until set_mode_recovery(false) has stored the flag.
AfterGracePeriod ==
    \/ cpc \in {"rs_lock", "rs_assign", "rs_msleep", "rs_unlock", "rs_kfree_rcu"}
    \/ cpc \in {"smr_lock", "smr_write"} /\ smr_flag = FALSE

\* Reader r enters a read-side critical section and reads the flag.
EntersSection(r) == rpc[r] = "rcu_read_lock" /\ rpc'[r] # "rcu_read_lock"

\* C2. Recovery atomicity: from the return of the controller's
\* synchronize_rcu() until it stores is_in_recovery = false, every reader
\* that enters a read-side critical section reads is_in_recovery = true
\* (and so takes the send_data_carefully branch).
C2_RecoveryAtomicity ==
    [][\A r \in Readers :
          AfterGracePeriod /\ EntersSection(r) => rpc'[r] = "send_data_carefully"]_vars

\* A reader has read is_in_recovery = true while the new web_data is
\* published and the clock not yet updated.
C2_Witness ==
    /\ cpc = "rs_msleep"
    /\ server.web_data = rs_new
    /\ \E r \in Readers : rpc[r] = "send_data_carefully"

\* From recover_server() having taken server_mutex until
\* set_mode_recovery(false) has stored the flag.
Transforming ==
    \/ cpc \in {"rs_assign", "rs_msleep", "rs_unlock", "rs_kfree_rcu"}
    \/ cpc \in {"smr_lock", "smr_write"} /\ smr_flag = FALSE

\* C3. While the controller is between taking server_mutex in
\* recover_server() and storing is_in_recovery = false, no reader is in
\* send_data() (about to dereference server.web_data, or holding the pointer
\* to read its message); a reader that read is_in_recovery = true is in
\* send_data_carefully() and holds no web_data pointer.
C3_NoReadWhileTransforming ==
    Transforming =>
        \A r \in Readers :
            /\ rpc[r] \notin {"send_data", "print"}
            /\ rpc[r] = "send_data_carefully" => rwd[r] = NULL

\* A reader that printed a normal response before is inside
\* send_data_carefully() while the old web_data is being retired.
C3_Witness ==
    /\ cpc = "rs_kfree_rcu"
    /\ \E r \in Readers :
        /\ rpc[r] = "send_data_carefully"
        /\ Len(rendered[r]) = 2

\* The scenario of C4: the Publisher's pass came first, so the web_data it
\* built (the second ever allocated) has message 0 + 3; the pass is over
\* from its exchange on; and recover_server() has not failed to allocate.
PublisherPassFirst ==
    /\ Len(web_datas) >= 2
    /\ web_datas[2].message = 3
    /\ upc \in {"u_unlock", "u_kfree_rcu", "parked"}
    /\ rs_ret = 0

\* recover_server() has made its exchange and its store to the clock.
TransformStored ==
    /\ Len(web_datas) = 3
    /\ cpc \notin {"rs_assign", "rs_msleep"}

\* Reader r prints a response in this step.
PrintsResponse(r) ==
    /\ rpc[r] \in {"print", "send_data_carefully"}
    /\ rpc'[r] = "msleep"

\* Reader r prints a response in this step, from a poll that read
\* server.web_data after the Publisher's exchange (or did not read it).
PrintsAfterPass(r) ==
    /\ PrintsResponse(r)
    /\ rpc[r] = "print" => rwd[r] # 1

\* normal(3)* degraded* normal(8)*: what may follow what.
ScenarioOrder(old, new) ==
    /\ new \in {Normal(3), Degraded, Normal(8)}
    /\ old = Degraded => new # Normal(3)
    /\ old = Normal(8) => new = Normal(8)

C5_PublishedImmutable ==
    [][/\ \A i \in DOMAIN states :
            states'[i].is_in_recovery = states[i].is_in_recovery
       /\ \A i \in DOMAIN times : times'[i].time = times[i].time
       /\ \A i \in DOMAIN web_datas :
            web_datas'[i].message = web_datas[i].message]_vars

\* recover_server() makes its exchange in this step.
TransformExchanges == cpc = "rs_assign" /\ cpc' = "rs_msleep"

\* recover_server() stores the clock in this step.
TransformStoresTime == cpc = "rs_msleep" /\ cpc' = "rs_unlock"

\* C6. Clock merge correctness: the web_data that recover_server() read
\* under server_mutex (rs_web_data) is the one its exchange replaces, and
\* the value it then stores in the clock is m XOR t, with m the message of
\* that replaced web_data and t the clock value before the store; with
\* t = 0, as at the first recovery, that value is m itself.
C6_ClockMerge ==
    [][/\ TransformExchanges =>
            /\ server.web_data = rs_web_data
            /\ server'.web_data # rs_web_data
            /\ rs_web_data' = rs_web_data
       /\ TransformStoresTime =>
            /\ Time' = Xor(web_datas[rs_web_data].message, Time)
            /\ Time = 0 => Time' = web_datas[rs_web_data].message
            /\ server.web_data # rs_web_data]_vars

\* The transform that replaced the Publisher's web_data (message 3, while
\* the new one has message 8) has stored the clock 3 XOR 0 = 3.
C6_Witness ==
    /\ cpc = "rs_unlock"
    /\ web_datas[rs_web_data].message = 3
    /\ Message = 8
    /\ Time = 3

\* C7. Shutdown does not hang: once clean_up_threads() has started stopping
\* the threads, it eventually returns (every reader and the controller has
\* exited), under fair scheduling.
C7_ShutdownCompletes == (exitpc = "wait_for_completion") ~> (exitpc = "done")

\* C8. Idempotent recovery flag: a set_mode_recovery(flag) that finds
\* is_in_recovery = flag changes neither the server's pointers nor any
\* object, retires nothing, and returns with state_mutex released.
C8_IdempotentFlag ==
    [][cpc = "smr_lock" /\ cpc' # cpc /\ Recovering = smr_flag =>
          /\ server' = server
          /\ states' = states
          /\ web_datas' = web_datas
          /\ times' = times
          /\ cb_wait' = cb_wait
          /\ state_mutex' = NULL
          /\ cpc' = SmrReturn(smr_flag)]_vars

\* set_mode_recovery(true) has returned to its caller with is_in_recovery
\* still true and state_mutex free, while a reader is in its critical section.
C8_Witness ==
    /\ cpc = "synchronize_rcu"
    /\ smr_flag
    /\ Recovering
    /\ state_mutex = NULL
    /\ \E r \in Readers : rpc[r] = "send_data_carefully"

\* Both writers have made their exchange.
BothExchanged ==
    /\ Len(web_datas) = 3
    /\ upc \in {"u_unlock", "u_kfree_rcu", "parked"}
    /\ cpc \notin {"rs_lock", "rs_assign"}

\* Both writers have also called kfree_rcu().
BothRetired ==
    /\ BothExchanged
    /\ upc = "parked"
    /\ cpc \notin {"rs_msleep", "rs_unlock", "rs_kfree_rcu"}

\* C9. Payload writers serialize: when updater_thread and recover_server()
\* have both replaced the web_data, the current message is one of the two
\* serial results from the initial message 0, 2^(0+3) or 2^0 + 3; no
\* web_data is passed to kfree_rcu twice and the current one never is; and
\* once both have retired, every web_data but the current one has been
\* retired exactly once.
C9_WritersSerialize ==
    /\ BothExchanged => Message \in {Pow2(0 + 3), Pow2(0) + 3}
    /\ \A p \in DOMAIN web_datas : web_datas[p].retired <= 1
    /\ server.web_data # NULL => web_datas[server.web_data].retired = 0
    /\ BothRetired =>
         \A p \in DOMAIN web_datas : p # server.web_data => web_datas[p].retired = 1

\* The recovery transform ran first and the Publisher second (message
\* 2^0 + 3 = 4), and both superseded objects have been retired.
C9_Witness ==
    /\ BothRetired
    /\ Message = 4
    /\ \A p \in DOMAIN web_datas : p # server.web_data => web_datas[p].retired = 1

AllSnapshots ==
    /\ server.web_data # NULL
    /\ server.state # NULL
    /\ server.update_timestamp # NULL

NoSnapshot ==
    /\ server.web_data = NULL /\ web_datas = << >>
    /\ server.state = NULL /\ states = << >>
    /\ server.update_timestamp = NULL /\ times = << >>

\* C10. Startup is all-or-nothing: when the initialisation has returned,
\* all three snapshots are published or none is published or allocated; and
\* when it failed on a snapshot, no thread has been created or started.
C10_StartupAllOrNothing ==
    initpc \in {"failed", "done"} =>
        /\ AllSnapshots \/ NoSnapshot
        /\ initpc = "failed" /\ ~AllSnapshots => \A c \in Clients : task[c] = "none"

\* recover_server() gives up on a failed kmalloc() in this step.
TransformAborts == cpc = "rs_lock" /\ cpc' = "smr_lock"

\* updater_thread gives up on a failed kmalloc() in this step.
PublisherAborts == upc = "u_lock" /\ upc' = "enomem"

\* C11. A writer's allocation failure leaves the state unchanged: the step
\* in which recover_server() or updater_thread finds kmalloc() returning
\* NULL changes neither server.web_data nor any object (so not the clock),
\* passes nothing to kfree_rcu, leaves server_mutex free, and stops no
\* reader; and as long as no writer has succeeded, the initial web_data stays
\* the published one, live and not retired, with the clock still 0.
C11_AllocFailureNoChange ==
    /\ [][TransformAborts \/ PublisherAborts =>
            /\ server' = server
            /\ web_datas' = web_datas
            /\ times' = times
            /\ states' = states
            /\ cb_wait' = cb_wait
            /\ server_mutex' = NULL
            /\ \A r \in Readers : task'[r] = task[r] /\ rpc'[r] = rpc[r]]_vars
    /\ []((rs_ret = -ENOMEM \/ upc = "enomem") /\ Len(web_datas) = 1 =>
            /\ server.web_data = 1
            /\ ~web_datas[1].freed
            /\ web_datas[1].retired = 0
            /\ Time = 0
            /\ server_mutex = NULL)

\* Both writers have failed to allocate, the recovery cycle is over, and a
\* reader is about to print the message of the initial web_data.
C11_Witness ==
    /\ cpc = "set_current_state"
    /\ rs_ret = -ENOMEM
    /\ upc = "enomem"
    /\ ~Recovering
    /\ \E r \in Readers : rpc[r] = "print" /\ rwd[r] = server.web_data

\* A thread of the module exists (created, running or exited), or
\* updater_thread has been started.
TaskStarted == (\E c \in Clients : task[c] # "none") \/ upc # "idle"

\* server.web_data points to a live web_data whose message is set.
ValidWebData(p) ==
    /\ p \in DOMAIN web_datas
    /\ web_datas[p].message \in Int
    /\ ~web_datas[p].freed
    /\ web_datas[p].retired = 0

\* C12. Whenever a reader, the recovery thread or updater_thread has been
\* created or runs, each of server.web_data, server.state and
\* server.update_timestamp is non-NULL and points to a live object with its
\* fields set; and every step that publishes a web_data while tasks exist
\* publishes an object that was already built, message set, before that step.
C12_ReferencesValid ==
    /\ [](TaskStarted =>
            /\ server.web_data # NULL
            /\ server.state # NULL
            /\ server.update_timestamp # NULL
            /\ ValidWebData(server.web_data)
            /\ server.state \in DOMAIN states
            /\ states[server.state].is_in_recovery \in BOOLEAN
            /\ server.update_timestamp \in DOMAIN times
            /\ times[server.update_timestamp].time \in Int)
    /\ [][TaskStarted /\ server'.web_data # server.web_data =>
            /\ server'.web_data \in DOMAIN web_datas
            /\ web_datas[server'.web_data].message \in Int
            /\ ~web_datas[server'.web_data].freed]_vars

\* A reader holds, inside its critical section, the third web_data ever
\* built, which is the published one, after both writers have exchanged.
C12_Witness ==
    /\ server.web_data = 3
    /\ \E r \in Readers : rpc[r] = "print" /\ rwd[r] = server.web_data
    /\ \E c \in Clients : task[c] = "running"

\* set_mode_recovery(false) has returned: the recovery cycle is over
\* (recover_server() returned 0 or -ENOMEM) and the thread is at or after
\* set_current_state(TASK_INTERRUPTIBLE).
CycleEnded == cpc \in {"set_current_state", "schedule"}

\* The thread is in a recovery cycle again: it calls set_mode_recovery(true).
CycleBegins == cpc = "smr_lock" /\ smr_flag

\* C13. The recovery thread is cyclic: once a recovery cycle has ended, with
\* recover_server() having succeeded or failed to allocate, the thread
\* eventually begins another cycle, unless kthread_stop() is called on it.
C13_ControllerCyclic == CycleEnded ~> (CycleBegins \/ should_stop[CRASH_ID])

\* No task is inside a read-side critical section in which it read
\* is_in_recovery = false: every section that was open when the flag was set
\* has ended (a section opened later read true).
NoSectionFromBefore ==
    /\ \A r \in Readers : rpc[r] \notin {"send_data", "print"}
    /\ upc # "u_read_unlock"

\* C14. The steps of a recovery cycle happen in order: is_in_recovery is
\* stored true; synchronize_rcu() is then called and returns only when every
\* read-side critical section open at the call has ended; only then
\* recover_server() exchanges server.web_data and after that stores the
\* clock, both with is_in_recovery = true; and is_in_recovery is stored false
\* only after recover_server() has returned (having retired the old web_data
\* when it returned 0).  No step of the recovery thread changes
\* server.web_data or the clock while is_in_recovery = false.
C14_CycleOrder ==
    [][server.state # NULL =>
        /\ ~Recovering /\ Recovering' =>
             cpc = "smr_write" /\ cpc' = "synchronize_rcu"
        /\ cpc = "synchronize_rcu" /\ cpc' # cpc =>
             Recovering /\ cpc' = "gp_wait" /\ gp_wait' = ReadSideTasks
        /\ cpc = "gp_wait" /\ cpc' # cpc =>
             Recovering /\ cpc' = "rs_lock" /\ NoSectionFromBefore
        /\ TransformExchanges =>
             Recovering /\ Recovering' /\ NoSectionFromBefore
        /\ TransformStoresTime =>
             /\ Recovering /\ Recovering'
             /\ server.web_data = rs_new
             /\ NoSectionFromBefore
        /\ Recovering /\ ~Recovering' =>
             /\ cpc = "smr_write" /\ cpc' = "set_current_state"
             /\ rs_web_data = NULL
             /\ server_mutex # CRASH_ID
             /\ rs_ret = 0 => \E p \in DOMAIN web_datas : web_datas[p].retired = 1
        /\ cpc' # cpc /\ (server' # server \/ times' # times) => Recovering]_vars

\* A whole cycle has run: the transform has exchanged the web_data and
\* stored the clock, is_in_recovery is false again, and a reader's last
\* response is the degraded one it printed during the cycle.
C14_Witness ==
    /\ cpc = "set_current_state"
    /\ rs_ret = 0
    /\ ~Recovering
    /\ Len(web_datas) >= 2
    /\ \E p \in DOMAIN web_datas : web_datas[p].retired = 1
    /\ \E r \in Readers : rendered[r] = Degraded

\* C15. The grace period never deadlocks: no grace period waits for the
\* recovery thread, which calls synchronize_rcu() and kfree_rcu() and has no
\* read-side critical section; updater_thread is outside its critical
\* section when it calls kfree_rcu(), and its grace period does not wait for
\* updater_thread itself; and, the threads being scheduled fairly, every
\* synchronize_rcu() of the recovery thread returns, although readers keep
\* opening new critical sections meanwhile.
C15_GracePeriodReturns ==
    /\ [](/\ CRASH_ID \notin gp_wait
          /\ \A p \in DOMAIN cb_wait : CRASH_ID \notin cb_wait[p]
          /\ upc = "u_kfree_rcu" => ~InReadSection(Updater)
          /\ upc = "parked" /\ u_web_data \in DOMAIN cb_wait =>
                Updater \notin cb_wait[u_web_data])
    /\ [][upc = "u_kfree_rcu" /\ upc' # upc =>
            Updater \notin cb_wait'[u_web_data]]_vars
    /\ (cpc = "gp_wait") ~> (cpc = "rs_lock")

\* synchronize_rcu() is waiting for a reader that was inside its critical
\* section at the call, while another reader has opened a new critical
\* section since, which the grace period does not wait for.
C15_Witness ==
    /\ cpc = "gp_wait"
    /\ gp_wait # {}
    /\ \E r \in Readers \ gp_wait : rpc[r] = "send_data_carefully"

\* updater_thread makes its exchange in this step.
PublisherExchanges == upc = "u_assign" /\ upc' = "u_unlock"

\* updater_thread calls kfree_rcu() in this step.
PublisherRetires == upc = "u_kfree_rcu" /\ upc' = "parked"

\* updater_thread is past its exchange, or has returned.
PublisherPassOver == upc \in {"u_unlock", "u_kfree_rcu", "parked", "exited", "enomem"}

\* C16. updater_thread is one-shot: only its exchange step changes
\* server.web_data, and once past it (or returned) it never comes back to
\* it; when it reads is_in_recovery = true it returns, exchanging and
\* retiring nothing and changing no object; otherwise the web_data it
\* publishes has message 3 + the message of the web_data it read under
\* server_mutex, which is still the current one at the exchange, and the
\* object it passes to kfree_rcu is that one and no other.
C16_PublisherOneShot ==
    /\ [][/\ upc' # upc /\ server' # server => PublisherExchanges
          /\ PublisherPassOver => upc' \in {upc, "u_kfree_rcu", "parked"}
          /\ upc = "idle" /\ upc' # upc /\ Recovering => upc' = "u_read_unlock_exit"
          /\ upc = "u_read_unlock_exit" /\ upc' # upc =>
                /\ upc' = "exited"
                /\ server' = server
                /\ heapvars' = heapvars
                /\ DOMAIN cb_wait' = DOMAIN cb_wait
          /\ PublisherExchanges =>
                /\ server.web_data = u_web_data
                /\ server'.web_data = u_new
                /\ web_datas[u_new].message = web_datas[u_web_data].message + 3
          /\ PublisherRetires =>
                /\ u_web_data # server.web_data
                /\ web_datas[u_web_data].retired = 0
                /\ web_datas'[u_web_data].retired = 1
                /\ \A p \in DOMAIN web_datas :
                      p # u_web_data => web_datas'[p] = web_datas[p]]_vars
    /\ [](upc = "exited" => u_web_data = NULL /\ u_new = NULL)

\* updater_thread ran after the recovery transform: it replaced the
\* transform's web_data (message 2^0 = 1) by one with message 4, retired it,
\* and is parked.
C16_Witness ==
    /\ upc = "parked"
    /\ server.web_data = 3
    /\ Message = 4
    /\ web_datas[2].message = 1
    /\ web_datas[2].retired = 1

\* recover_server() builds its new web_data in this step.
TransformBuilds == cpc = "rs_lock" /\ cpc' = "rs_assign"

AllocatedStates == DOMAIN states

AllocatedTimes == DOMAIN times

\* C18. Resources are released on stop: once http_server_rcu_exit() has
\* returned (every thread of server.clients has been stopped), every
\* web_data ever allocated, current or retired, has been freed and no
\* kfree_rcu is pending, and no struct state or struct time is allocated.
C18_ReleasedOnStop ==
    exitpc = "done" =>
        /\ \A p \in DOMAIN web_datas : web_datas[p].freed
        /\ DOMAIN cb_wait = {}
        /\ AllocatedStates = {}
        /\ AllocatedTimes = {}

\* C19. updater_thread never exchanges server.web_data during a recovery:
\* in the step of its rcu_assign_pointer, is_in_recovery is false.
C19_NoPublishWhileRecovering ==
    [][PublisherExchanges => ~Recovering /\ ~Recovering']_vars

\* recover_system_thread has returned.
ControllerExited == cpc = "exited"

\* C20, as stated.  The recovery thread never returns in the middle of a
\* recovery cycle: whenever it has returned, is_in_recovery is false and
\* server_mutex is free.
C20_NoExitMidCycleAsStated ==
    ControllerExited => ~Recovering /\ server_mutex = NULL

\* C20, amended.  Whenever the recovery thread has returned, is_in_recovery
\* is false, server_mutex is not held by the recovery thread, and
\* recover_server() has left nothing half done (its local pointers are
\* cleared, state_mutex is free); the thread returns only from the test at
\* the top of its loop.  updater_thread may hold server_mutex at that time.
C20_NoExitMidCycle ==
    /\ [](ControllerExited =>
            /\ ~Recovering
            /\ server_mutex # CRASH_ID
            /\ state_mutex = NULL
            /\ rs_web_data = NULL
            /\ rs_new = NULL)
    /\ [][~ControllerExited /\ ControllerExited' =>
            cpc = "top" /\ should_stop[CRASH_ID]]_vars

\* The recovery thread has returned after a cycle whose transform failed
\* to allocate: kthread_stop() reached it when it was parked.
C20_Witness ==
    /\ ControllerExited
    /\ rs_ret = -ENOMEM
    /\ ~Recovering
    /\ server_mutex = NULL

====
